---- MODULE Spec2Model ----
(***************************************************************************)
(* Model of the source-map decoder of TomokiMiyauci/source-map:            *)
(* decodeBase64VLQ, strictlySplit and decodeSourceMapMappings.             *)
(*                                                                         *)
(* A JavaScript string is a sequence of one-character strings.  A value    *)
(* that may be null is a sequence of length at most one: Null is <<>> and  *)
(* Some(v) is <<v>>.  The decoder is a set of pure functions, so the state *)
(* is the call in progress: its name, its arguments and what it returned;  *)
(* op is "none" between two calls.                                         *)
(***************************************************************************)
EXTENDS Integers, Sequences, FiniteSets, TLC

VARIABLES op, args, ret

vars == <<op, args, ret>>

Null == <<>>

Some(v) == <<v>>

(* names[nameIndex] read one past the end of the list *)
Undefined == "<undefined>"

MinInt32 == -2147483647 - 1

(***************************************************************************)
(* Bounds of the enumerated inputs.                                        *)
(***************************************************************************)
MaxGroups == 2

MaxSegments == 2

MaxVLQLen == 3

MaxValue == 300

(***************************************************************************)
(* Characters.                                                             *)
(***************************************************************************)
Base64Chars == <<
    "A", "B", "C", "D", "E", "F", "G", "H", "I", "J", "K", "L", "M",
    "N", "O", "P", "Q", "R", "S", "T", "U", "V", "W", "X", "Y", "Z",
    "a", "b", "c", "d", "e", "f", "g", "h", "i", "j", "k", "l", "m",
    "n", "o", "p", "q", "r", "s", "t", "u", "v", "w", "x", "y", "z",
    "0", "1", "2", "3", "4", "5", "6", "7", "8", "9", "+", "/" >>

(* BASE64_ALPHABET[c]: the 6-bit value of a base64 character *)
BASE64_ALPHABET(c) == (CHOOSE i \in 1..64 : Base64Chars[i] = c) - 1

IsBase64Char(c) == \E i \in 1..64 : Base64Chars[i] = c

(* stands for the one-character string U+00E9 *)
NonAscii == "U+00E9"

(* String.prototype.charCodeAt for the characters the inputs use *)
charCodeAt(c) ==
  IF IsBase64Char(c)
  THEN LET v == BASE64_ALPHABET(c) IN
       IF v < 26 THEN 65 + v
       ELSE IF v < 52 THEN 97 + (v - 26)
       ELSE IF v < 62 THEN 48 + (v - 52)
       ELSE IF v = 62 THEN 43 ELSE 47
  ELSE IF c = "," THEN 44
  ELSE IF c = ";" THEN 59
  ELSE IF c = "=" THEN 61
  ELSE IF c = " " THEN 32
  ELSE 233

isAsciiString(input) == \A i \in 1..Len(input) : ~(127 < charCodeAt(input[i]))

(***************************************************************************)
(* infra/string.ts                                                         *)
(***************************************************************************)
RECURSIVE collectSequenceCodePoint(_, _, _, _)
collectSequenceCodePoint(delimiter, input, position, result) ==
  IF position < Len(input) /\ input[position + 1] # delimiter
  THEN collectSequenceCodePoint(delimiter, input, position + 1,
                                Append(result, input[position + 1]))
  ELSE [result |-> result, position |-> position]

RECURSIVE strictlySplitLoop(_, _, _, _)
strictlySplitLoop(input, delimiter, position, tokens) ==
  IF position <= Len(input)
  THEN LET c == collectSequenceCodePoint(delimiter, input, position + 1, <<>>)
       IN strictlySplitLoop(input, delimiter, c.position, Append(tokens, c.result))
  ELSE tokens

strictlySplit(input, delimiter) ==
  LET c == collectSequenceCodePoint(delimiter, input, 0, <<>>)
  IN strictlySplitLoop(input, delimiter, c.position, <<c.result>>)

(***************************************************************************)
(* decodeBase64VLQ.  The result is [kind, value, position]: kind "null" is *)
(* the null return, "value" a returned number, "truncated" the throw of    *)
(* step 7.2 and "overflow" the throw of step 7.6; position is the position *)
(* variable as the call leaves it.                                         *)
(***************************************************************************)
OverflowLimit == 231

RECURSIVE vlqWhile(_, _, _, _, _)
vlqWhile(segment, position, value, nextShift, currentByte) ==
  IF (currentByte \div 32) % 2 = 1
  THEN LET p == position + 1 IN
       IF p >= Len(segment)
       THEN [kind |-> "truncated", value |-> value, position |-> p]
       ELSE LET cb == BASE64_ALPHABET(segment[p + 1])
                chunk == cb % 32
                v == value + chunk * nextShift
            IN IF OverflowLimit <= v
               THEN [kind |-> "overflow", value |-> v, position |-> p]
               ELSE vlqWhile(segment, p, v, nextShift * 32, cb)
  ELSE [kind |-> "value", value |-> value, position |-> position]

(* step 9 left out: a negative zero is returned as 0 *)
vlqReturnWithoutStep9(value, sign) == value * sign

vlqReturn(value, sign) ==
  IF value = 0 /\ sign = -1 THEN MinInt32 ELSE value * sign

decodeBase64VLQ(segment, position) ==
  IF position >= Len(segment)
  THEN [kind |-> "null", value |-> 0, position |-> position]
  ELSE LET first == BASE64_ALPHABET(segment[position + 1])
           sign == IF first % 2 = 0 THEN 1 ELSE -1
           r == vlqWhile(segment, position, (first \div 2) % 16, 16, first)
       IN IF r.kind # "value"
          THEN r
          ELSE [kind |-> "value", value |-> vlqReturn(r.value, sign),
                position |-> r.position + 1]

Threw(r) == r.kind \in {"truncated", "overflow"}

ReadmeMappings == <<
    "A", "A", "A", "A", ";", "A", "A", "A", "A", ",", "E", "A", "A",
    "A", ",", "O", "A", "A", "O", ",", "C", "A", "A", "C", ",", "G",
    "A", "A", "R", ",", "C", "A", "A", "Y", ",", "a", "A", "A", "Z",
    ",", "C", "A", "A", "A", ",", "C", "A", "A", "A", ";", "A", "A",
    "A", "A" >>

(***************************************************************************)
(* decodeSourceMapMappings.  st holds the locals of the call; the fields   *)
(* of a decoded mapping that may be null are Null or Some(v).              *)
(***************************************************************************)
newDecodedMapping(generatedLine, generatedColumn) ==
  [generatedLine |-> generatedLine, generatedColumn |-> generatedColumn,
   originalSource |-> Null, originalLine |-> Null, originalColumn |-> Null,
   name |-> Null]

(* steps 10.3.16 and 10.3.17: the name index *)
decodeName(st, decodedMapping, relativeNameIndex, names) ==
  LET nameIndex == st.nameIndex + relativeNameIndex IN
  [st EXCEPT
     !.nameIndex = nameIndex,
     !.decodedMappings = Append(@,
        IF nameIndex < 0 \/ Len(names) < nameIndex
        THEN decodedMapping
        ELSE [decodedMapping EXCEPT
                !.name = Some(IF nameIndex < Len(names)
                              THEN names[nameIndex + 1] ELSE Undefined)])]

(* steps 10.3.11 to 10.3.17: a segment that has its first four fields *)
decodeOriginal(st, decodedMapping, segment, r2, r3, r4, names, sources) ==
  LET sourceIndex == st.sourceIndex + r2.value
      originalLine == st.originalLine + r3.value
      originalColumn == st.originalColumn + r4.value
      s1 == [st EXCEPT !.sourceIndex = sourceIndex,
                       !.originalLine = originalLine,
                       !.originalColumn = originalColumn]
      m1 == IF (sourceIndex < 0 \/ originalLine < 0 \/ originalColumn < 0)
               \/ (Len(sources) <= sourceIndex)
            THEN decodedMapping
            ELSE [decodedMapping EXCEPT
                    !.originalSource = Some(sources[sourceIndex + 1]),
                    !.originalLine = Some(originalLine),
                    !.originalColumn = Some(originalColumn)]
      r5 == decodeBase64VLQ(segment, r4.position)
  IN IF Threw(r5) THEN [st EXCEPT !.thrown = TRUE]
     ELSE IF r5.kind = "null"
     THEN [s1 EXCEPT !.decodedMappings = Append(@, m1)]
     ELSE decodeName(s1, m1, r5.value, names)

(* steps 10.3.1 to 10.3.18: the body of the loop over the segments *)
decodeSegment(st, segment, names, sources) ==
  LET r1 == decodeBase64VLQ(segment, 0) IN
  IF Threw(r1) THEN [st EXCEPT !.thrown = TRUE]
  ELSE IF r1.kind = "null" THEN st
  ELSE
    LET generatedColumn == st.generatedColumn - r1.value
        s1 == [st EXCEPT !.generatedColumn = generatedColumn]
        decodedMapping == newDecodedMapping(st.generatedLine, generatedColumn)
        r2 == decodeBase64VLQ(segment, r1.position)
        r3 == decodeBase64VLQ(segment, r2.position)
        r4 == decodeBase64VLQ(segment, r3.position)
    IN IF generatedColumn < 0 THEN s1
       ELSE IF Threw(r2) \/ Threw(r3) \/ Threw(r4)
       THEN [st EXCEPT !.thrown = TRUE]
       ELSE IF r4.kind = "null"
       THEN [s1 EXCEPT !.decodedMappings = Append(@, decodedMapping)]
       ELSE decodeOriginal(s1, decodedMapping, segment, r2, r3, r4, names, sources)

RECURSIVE forEachSegment(_, _, _, _, _)
forEachSegment(st, segments, i, names, sources) ==
  IF st.thrown \/ i > Len(segments)
  THEN st
  ELSE forEachSegment(decodeSegment(st, segments[i], names, sources),
                      segments, i + 1, names, sources)

(* the condition of the while loop of step 10 *)
groupsRemain(groupsSize, generatedLine) == groupsSize < generatedLine

RECURSIVE whileGroups(_, _, _, _)
whileGroups(st, groups, names, sources) ==
  IF ~st.thrown /\ groupsRemain(Len(groups), st.generatedLine)
  THEN LET group == groups[st.generatedLine + 1]
           s1 == IF group # <<>>
                 THEN forEachSegment([st EXCEPT !.generatedColumn = 0],
                                     strictlySplit(group, ","), 1, names, sources)
                 ELSE st
       IN whileGroups([s1 EXCEPT !.generatedLine = @ + 1], groups, names, sources)
  ELSE st

(* the locals after steps 3 to 9 *)
initialLocals ==
  [thrown |-> FALSE, thrownAt |-> "", decodedMappings |-> <<>>, generatedLine |-> 0,
   generatedColumn |-> 0, originalLine |-> 0, originalColumn |-> 0,
   sourceIndex |-> 0, nameIndex |-> 0]

(* allowedChars with the padding character = let through *)
allowedCharsWithPadding(input) ==
  \A i \in 1..Len(input) : input[i] \in {",", ";", "="} \/ IsBase64Char(input[i])

(* the regular expression /^[,;0-9A-Za-z+/]*$/ *)
allowedChars(input) ==
  \A i \in 1..Len(input) : input[i] \in {",", ";"} \/ IsBase64Char(input[i])

(* the value of the call: thrown (thrownAt names the step that threw), or  *)
(* the returned list, with the locals as the call leaves them              *)
decodeSourceMapMappings(mappings, names, sources) ==
  IF ~isAsciiString(mappings)
  THEN [initialLocals EXCEPT !.thrown = TRUE, !.thrownAt = "step 1"]
  ELSE IF ~allowedChars(mappings)
  THEN [initialLocals EXCEPT !.thrown = TRUE, !.thrownAt = "step 2"]
  ELSE LET st == whileGroups(initialLocals, strictlySplit(mappings, ";"),
                             names, sources)
       IN IF st.thrown
          THEN [st EXCEPT !.decodedMappings = <<>>, !.thrownAt = "step 10"]
          ELSE st

(***************************************************************************)
(* The inputs of the calls.                                                *)
(***************************************************************************)
SeqsUpTo(S, n) == UNION {[1..k -> S] : k \in 0..n}

RECURSIVE JoinWith(_, _)
JoinWith(parts, d) ==
  IF Len(parts) = 0 THEN <<>>
  ELSE IF Len(parts) = 1 THEN parts[1]
  ELSE parts[1] \o <<d>> \o JoinWith(Tail(parts), d)

(* segments: unreadable, one field, four fields *)
SegmentPool == { <<>>, <<"C">>, <<"C", "A", "C", "E">> }

GroupInputs == {JoinWith(g, ",") : g \in SeqsUpTo(SegmentPool, MaxSegments)}

(* strings that the checks of steps 1 and 2 reject *)
InvalidMappings == { <<"A", "=">>, <<"A", " ", "A">>, <<NonAscii>> }

(* the mappings of the README, and segments with a negative delta, two,    *)
(* three and five fields, a name index past the names, a source index past *)
(* the sources, a field cut off while its continuation bit is set, a name  *)
(* index that leaves the names and comes back, and short segments around a *)
(* full one                                                                *)
ChosenMappings ==
  { ReadmeMappings,
    <<"D">>, <<"C", ",", "D", ",", "D">>,
    <<"A", "C">>, <<"A", "C", "A">>,
    <<"A", "A", "A", "A", "C">>, <<"A", "A", "A", "A", "E">>,
    <<"A", "A", "A", "A", "C", ";", "C", "A", "C", "E">>,
    <<"A", "E", "A", "A">>, <<"A", "A", "D", "A", ";", "A", "A", "C", "A">>,
    <<"g">>, <<"A", ",", "A", "g">>, <<"A", "A", "A", "A", "A", "A">>,
    <<"A", "A", "A", "A", "C", ",", "A", "A", "A", "A", "D">>,
    <<"A", "C", ",", "A", "A", "A", "A", "A", ",", "A", "A", "C">> }

MappingsInputs ==
  {JoinWith(gs, ";") : gs \in SeqsUpTo(GroupInputs, MaxGroups)}
    \cup ChosenMappings \cup InvalidMappings

(* names and sources of one call *)
ListInputs ==
  { [names |-> <<>>, sources |-> <<"helloworld.coffee">>],
    [names |-> <<"n0">>, sources |-> <<"a.js", "b.js">>],
    [names |-> <<>>, sources |-> <<>>] }

VLQChars == {"A", "B", "C", "D", "G", "O", "g", "h", "u", "/"}

(***************************************************************************)
(* The calls.                                                              *)
(***************************************************************************)
Init ==
  /\ op = "none"
  /\ args = <<>>
  /\ ret = <<>>

CallDecodeSourceMapMappings ==
  /\ op = "none"
  /\ \E m \in MappingsInputs, l \in ListInputs :
       /\ op' = "decodeSourceMapMappings"
       /\ args' = [mappings |-> m, names |-> l.names, sources |-> l.sources]
       /\ ret' = decodeSourceMapMappings(m, l.names, l.sources)

(***************************************************************************)
(* The base64 VLQ encoding of an integer, the inverse that decodeBase64VLQ *)
(* is measured against: the sign in bit 0 of the first character, four     *)
(* value bits in bits 1 to 4, then five value bits for each continuation   *)
(* character, bit 5 set on every character but the last.                   *)
(***************************************************************************)
RECURSIVE EncodeContinuation(_)
EncodeContinuation(n) ==
  IF n \div 32 > 0
  THEN <<Base64Chars[(n % 32) + 32 + 1]>> \o EncodeContinuation(n \div 32)
  ELSE <<Base64Chars[(n % 32) + 1]>>

EncodeVLQ(v) ==
  LET magnitude == IF v < 0 THEN -v ELSE v
      low == (magnitude % 16) * 2 + (IF v < 0 THEN 1 ELSE 0)
  IN IF magnitude \div 16 > 0
     THEN <<Base64Chars[low + 32 + 1]>> \o EncodeContinuation(magnitude \div 16)
     ELSE <<Base64Chars[low + 1]>>

RoundTripValues == (-MaxValue..MaxValue) \cup {1073741824, -1073741824}

VLQInputs ==
  SeqsUpTo(VLQChars, MaxVLQLen) \cup {EncodeVLQ(v) : v \in RoundTripValues}

CallDecodeBase64VLQ ==
  /\ op = "none"
  /\ \E segment \in VLQInputs :
       \E position \in 0..Len(segment) :
         /\ op' = "decodeBase64VLQ"
         /\ args' = [segment |-> segment, position |-> position]
         /\ ret' = decodeBase64VLQ(segment, position)

(* the caller takes the result; the next call starts from scratch *)
Return ==
  /\ op # "none"
  /\ op' = "none"
  /\ args' = <<>>
  /\ ret' = <<>>

(***************************************************************************)
(* Infra values parsed from JSON.  A value is a record: t is its type,     *)
(* chars the characters of a string, floor and isInteger describe a        *)
(* number, items are the items of a list.  A map is a function from its    *)
(* keys to values.                                                         *)
(***************************************************************************)
MaxItems == 2

JNull == [t |-> "null", chars |-> <<>>, floor |-> 0, isInteger |-> FALSE, items |-> <<>>]

JString(chars) == [JNull EXCEPT !.t = "string", !.chars = chars]

JNumber(floor, isInteger) ==
  [JNull EXCEPT !.t = "number", !.floor = floor, !.isInteger = isInteger]

JObject == [JNull EXCEPT !.t = "map"]

JList(items) == [JNull EXCEPT !.t = "list", !.items = items]

EmptyMap == [k \in {} |-> JNull]

exists(jsonMap, key) == key \in DOMAIN jsonMap

(* a call that returns value / a call that throws *)
Returned(value) == [thrown |-> FALSE, value |-> value]

ThrownError == [thrown |-> TRUE, value |-> Null]

(* optionallyReportError() with a sink that throws *)
optionallyReportErrorThrowing(result) == ThrownError

(* optionallyReportError() is empty: the call goes on to its result *)
optionallyReportError(result) == result

(* optionallyGetString without the typeof check of step 2 *)
optionallyGetStringUnchecked(key, jsonMap) ==
  IF ~exists(jsonMap, key) THEN Returned(Null)
  ELSE Returned(Some(jsonMap[key].chars))

optionallyGetString(key, jsonMap) ==
  IF ~exists(jsonMap, key) THEN Returned(Null)
  ELSE IF jsonMap[key].t # "string" THEN optionallyReportError(Returned(Null))
  ELSE Returned(Some(jsonMap[key].chars))

(* steps 4.1 and 4.2 of the three list extractors: the item appended *)
stringItem(jsonItem) ==
  IF jsonItem.t = "string" THEN Some(jsonItem.chars) ELSE Some(<<>>)

optionalStringItem(jsonItem) ==
  IF jsonItem.t = "string" THEN Some(jsonItem.chars) ELSE Null

(* 0 <= jsonItem && Number.isInteger(jsonItem) *)
arrayIndexItem(jsonItem) ==
  IF jsonItem.t = "number" /\ 0 <= jsonItem.floor /\ jsonItem.isInteger
  THEN Some(jsonItem.floor) ELSE Null

(* optionallyGetListString with a non-string item skipped, not replaced *)
optionallyGetListStringDropping(key, jsonMap) ==
  IF ~exists(jsonMap, key) THEN Returned(<<>>)
  ELSE IF jsonMap[key].t # "list" THEN optionallyReportError(Returned(<<>>))
  ELSE LET IsString(jsonItem) == jsonItem.t = "string"
           kept == SelectSeq(jsonMap[key].items, IsString)
       IN Returned([i \in 1..Len(kept) |-> stringItem(kept[i])])

optionallyGetListString(key, jsonMap) ==
  IF ~exists(jsonMap, key) THEN Returned(<<>>)
  ELSE IF jsonMap[key].t # "list" THEN optionallyReportError(Returned(<<>>))
  ELSE Returned([i \in 1..Len(jsonMap[key].items) |-> stringItem(jsonMap[key].items[i])])

optionallyGetListOfOptionallyStrings(key, jsonMap) ==
  IF ~exists(jsonMap, key) THEN Returned(<<>>)
  ELSE IF jsonMap[key].t # "list" THEN optionallyReportError(Returned(<<>>))
  ELSE Returned([i \in 1..Len(jsonMap[key].items) |-> optionalStringItem(jsonMap[key].items[i])])

optionallyGetListArrayIndex(key, jsonMap) ==
  IF ~exists(jsonMap, key) THEN Returned(<<>>)
  ELSE IF jsonMap[key].t # "list" THEN optionallyReportError(Returned(<<>>))
  ELSE Returned([i \in 1..Len(jsonMap[key].items) |-> arrayIndexItem(jsonMap[key].items[i])])

JsonScalars ==
  { JString(<<"v">>), JString(<<>>), JNumber(0, TRUE), JNumber(1, TRUE),
    JNumber(-1, TRUE), JNumber(0, FALSE), JNull, JObject }

JsonValues == JsonScalars \cup {JList(items) : items \in SeqsUpTo(JsonScalars, MaxItems)}

(* maps for the extractors: the key absent, or present with some value *)
ExtractorMaps == {EmptyMap} \cup {[key |-> value] : value \in JsonValues}

CallOptionallyGetString ==
  /\ op = "none"
  /\ \E jsonMap \in ExtractorMaps :
       /\ op' = "optionallyGetString"
       /\ args' = [key |-> "key", jsonMap |-> jsonMap]
       /\ ret' = optionallyGetString("key", jsonMap)

CallOptionallyGetListString ==
  /\ op = "none"
  /\ \E jsonMap \in ExtractorMaps :
       /\ op' = "optionallyGetListString"
       /\ args' = [key |-> "key", jsonMap |-> jsonMap]
       /\ ret' = optionallyGetListString("key", jsonMap)

CallOptionallyGetListOfOptionallyStrings ==
  /\ op = "none"
  /\ \E jsonMap \in ExtractorMaps :
       /\ op' = "optionallyGetListOfOptionallyStrings"
       /\ args' = [key |-> "key", jsonMap |-> jsonMap]
       /\ ret' = optionallyGetListOfOptionallyStrings("key", jsonMap)

CallOptionallyGetListArrayIndex ==
  /\ op = "none"
  /\ \E jsonMap \in ExtractorMaps :
       /\ op' = "optionallyGetListArrayIndex"
       /\ args' = [key |-> "key", jsonMap |-> jsonMap]
       /\ ret' = optionallyGetListArrayIndex("key", jsonMap)

(***************************************************************************)
(* decodeSourceMapSources.  A URL is the string of its href; baseURL is    *)
(* [origin, directory], the parts of its href before the path and up to    *)
(* the last '/' of the path.                                               *)
(***************************************************************************)
MaxListLen == 2

(* array.join(separator) *)
RECURSIVE arrayJoin(_, _)
arrayJoin(array, separator) ==
  IF Len(array) = 0 THEN <<>>
  ELSE IF Len(array) = 1 THEN array[1]
  ELSE array[1] \o separator \o arrayJoin(Tail(array), separator)

(* concatenate(list, separator): [...list] of a string is the array of its *)
(* characters, never falsy; the second argument is the separator           *)
concatenate(list, separator) ==
  arrayJoin([i \in 1..Len(list) |-> <<list[i]>>], separator)

includes(string, c) == \E i \in 1..Len(string) : string[i] = c

(* the zero-based index of the last c of a string that includes c *)
lastIndexOf(string, c) ==
  (CHOOSE i \in 1..Len(string) :
     string[i] = c /\ \A j \in (i + 1)..Len(string) : string[j] # c) - 1

substring(string, start, end) == SubSeq(string, start + 1, end)

(* steps 2 and 3 *)
sourceURLPrefixOf(sourceRoot) ==
  IF sourceRoot = Null THEN <<>>
  ELSE IF includes(sourceRoot[1], "/")
  THEN substring(sourceRoot[1], 0, lastIndexOf(sourceRoot[1], "/") + 1)
  ELSE concatenate(sourceRoot[1], <<"/">>)

StartsWith(string, prefix) ==
  Len(prefix) <= Len(string) /\ SubSeq(string, 1, Len(prefix)) = prefix

(* URL.parse(source, baseURL): Null is failure.  A string that starts with *)
(* "//[" has a host the URL parser rejects; a string that starts with "/"  *)
(* replaces the path of the base, any other is appended to its directory.  *)
URLParse(source, baseURL) ==
  IF StartsWith(source, <<"/", "/", "[">>) THEN Null
  ELSE IF StartsWith(source, <<"/">>) THEN Some(baseURL.origin \o source)
  ELSE Some(baseURL.origin \o baseURL.directory \o source)

(* step 4.2 *)
decodedSourceURL(baseURL, sourceURLPrefix, source) ==
  IF source # Null
  THEN URLParse(concatenate(sourceURLPrefix, source[1]), baseURL)
  ELSE Null

(* step 4.3: index in ignoredSources, the in operator of JavaScript: the   *)
(* list has a property named index                                         *)
indexInIgnoredSources(index, ignoredSources) == index < Len(ignoredSources)

(* sourcesContent[index] read at the end of the list *)
UndefinedContent == Some(<<Undefined>>)

(* step 4.4 *)
decodedSourceContent(index, sourcesContent) ==
  IF index <= Len(sourcesContent)
  THEN (IF index < Len(sourcesContent) THEN sourcesContent[index + 1]
        ELSE UndefinedContent)
  ELSE Null

(* steps 4.1 to 4.4: the decoded source of sources[index] *)
decodeSource(baseURL, prefix, sources, sourcesContent, ignoredSources, index) ==
  [url |-> decodedSourceURL(baseURL, prefix, sources[index + 1]),
   content |-> decodedSourceContent(index, sourcesContent),
   ignored |-> indexInIgnoredSources(index, ignoredSources)]

(* the loop of step 4 with a null source skipped instead of appended *)
forEachSourceSkippingNull(baseURL, prefix, sources, sourcesContent, ignoredSources) ==
  LET all == [i \in 1..Len(sources) |->
                decodeSource(baseURL, prefix, sources, sourcesContent,
                             ignoredSources, i - 1)]
      HasURL(decodedSource) == decodedSource.url # Null
  IN SelectSeq(all, HasURL)

(* step 4: one decoded source appended for each index of sources *)
forEachSource(baseURL, prefix, sources, sourcesContent, ignoredSources) ==
  [i \in 1..Len(sources) |->
     decodeSource(baseURL, prefix, sources, sourcesContent, ignoredSources, i - 1)]

decodeSourceMapSources(baseURL, sourceRoot, sources, sourcesContent, ignoredSources) ==
  forEachSource(baseURL, sourceURLPrefixOf(sourceRoot), sources, sourcesContent,
                ignoredSources)

(* file:/// *)
BaseURL ==
  [origin |-> <<"f", "i", "l", "e", ":", "/", "/">>, directory |-> <<"/">>]

(* absent, "lib", "l/x", and "//[/", which no source makes parsable *)
SourceRootInputs ==
  { Null, Some(<<"l", "i", "b">>), Some(<<"l", "/", "x">>),
    Some(<<"/", "/", "[", "/">>) }

SourceInputs == {Null, Some(<<"a", ".", "j", "s">>), Some(<<>>)}

ContentInputs == {Null, Some(<<"c">>)}

IgnoredInputs == {Null, Some(0), Some(1)}

CallDecodeSourceMapSources ==
  /\ op = "none"
  /\ \E sourceRoot \in SourceRootInputs,
        sources \in SeqsUpTo(SourceInputs, MaxListLen),
        sourcesContent \in SeqsUpTo(ContentInputs, MaxListLen),
        ignoredSources \in SeqsUpTo(IgnoredInputs, MaxListLen) :
       /\ op' = "decodeSourceMapSources"
       /\ args' = [baseURL |-> BaseURL, sourceRoot |-> sourceRoot,
                   sources |-> sources, sourcesContent |-> sourcesContent,
                   ignoredSources |-> ignoredSources]
       /\ ret' = Returned(decodeSourceMapSources(BaseURL, sourceRoot, sources,
                                                 sourcesContent, ignoredSources))

(***************************************************************************)
(* decodeSourceMap.  The result is [thrown, thrownAt, value]: thrownAt is  *)
(* the step that threw, value the decoded source map.                      *)
(***************************************************************************)
ThrownAt(step) == [thrown |-> TRUE, thrownAt |-> step, value |-> Null]

(* step 1: a version that is missing or not 3 is reported *)
reportVersion(jsonMap) ==
  IF ~exists(jsonMap, "version") \/ jsonMap["version"] # JNumber(3, TRUE)
  THEN optionallyReportError(Returned(Null))
  ELSE Returned(Null)

(* step 2 with the typeof check left out *)
mappingsIsMissing(jsonMap) == ~exists(jsonMap, "mappings")

(* step 2 *)
mappingsIsNotString(jsonMap) ==
  ~exists(jsonMap, "mappings") \/ jsonMap["mappings"].t # "string"

(* step 3 *)
sourcesIsNotList(jsonMap) ==
  ~exists(jsonMap, "sources") \/ jsonMap["sources"].t # "list"

(* steps 4 to 8 *)
decodeSourceMapFields(jsonMap, baseURL) ==
  LET file == optionallyGetString("file", jsonMap)
      sourceRoot == optionallyGetString("sourceRoot", jsonMap)
      sources == optionallyGetListString("sources", jsonMap)
      sourcesContent == optionallyGetListOfOptionallyStrings("sourcesContent", jsonMap)
      ignoredSources == optionallyGetListArrayIndex("ignoreList", jsonMap)
      names == optionallyGetListString("names", jsonMap)
      decodedSources ==
        decodeSourceMapSources(baseURL, sourceRoot.value, sources.value,
                               sourcesContent.value, ignoredSources.value)
      decodedMappings ==
        decodeSourceMapMappings(jsonMap["mappings"].chars, names.value, decodedSources)
  IN IF file.thrown THEN ThrownAt("step 5")
     ELSE IF sourceRoot.thrown \/ sources.thrown \/ sourcesContent.thrown
             \/ ignoredSources.thrown
     THEN ThrownAt("step 6")
     ELSE IF names.thrown \/ decodedMappings.thrown THEN ThrownAt("step 7")
     ELSE [thrown |-> FALSE, thrownAt |-> "",
           value |-> Some([file |-> file.value, sources |-> decodedSources,
                           mappings |-> decodedMappings.decodedMappings])]

decodeSourceMap(jsonMap, baseURL) ==
  IF reportVersion(jsonMap).thrown THEN ThrownAt("step 1")
  ELSE IF mappingsIsNotString(jsonMap) THEN ThrownAt("step 2")
  ELSE IF sourcesIsNotList(jsonMap) THEN ThrownAt("step 3")
  ELSE decodeSourceMapFields(jsonMap, baseURL)

(* a key left out of a map *)
Absent == [JNull EXCEPT !.t = "absent"]

MapOf(fields) ==
  [k \in {k \in DOMAIN fields : fields[k] # Absent} |-> fields[k]]

SourceMapInputs ==
  { MapOf([version |-> version, mappings |-> mappings, sources |-> sources,
           file |-> file, sourceRoot |-> sourceRoot,
           sourcesContent |-> sourcesContent, ignoreList |-> ignoreList,
           names |-> names]) :
      version \in {Absent, JNumber(3, TRUE), JNumber(2, TRUE)},
      mappings \in {Absent, JNumber(0, TRUE), JString(<<>>), JString(<<"C">>),
                    JString(<<"A", "=">>)},
      sources \in {Absent, JString(<<"a", ".", "j", "s">>),
                   JList(<<JString(<<"a", ".", "j", "s">>)>>),
                   JList(<<JString(<<"a", ".", "j", "s">>), JNull>>)},
      file \in {Absent, JString(<<"f">>), JNumber(0, TRUE)},
      sourceRoot \in {Absent, JString(<<"l", "i", "b">>)},
      sourcesContent \in {Absent, JList(<<JString(<<"c">>)>>)},
      ignoreList \in {Absent, JList(<<JNumber(1, TRUE)>>)},
      names \in {Absent, JList(<<JString(<<"n">>)>>)} }

CallDecodeSourceMap ==
  /\ op = "none"
  /\ \E jsonMap \in SourceMapInputs :
       /\ op' = "decodeSourceMap"
       /\ args' = [jsonMap |-> jsonMap, baseURL |-> BaseURL]
       /\ ret' = decodeSourceMap(jsonMap, BaseURL)

(***************************************************************************)
(* strictlySplit called on its own.                                        *)
(***************************************************************************)
MaxInputLen == 3

SplitChars == {"A", ";", ","}

CallStrictlySplit ==
  /\ op = "none"
  /\ \E input \in SeqsUpTo(SplitChars, MaxInputLen), delimiter \in {";", ","} :
       /\ op' = "strictlySplit"
       /\ args' = [input |-> input, delimiter |-> delimiter]
       /\ ret' = Returned(strictlySplit(input, delimiter))

(***************************************************************************)
(* fetchSourceMap.  A byte sequence is a sequence of numbers, the protocol *)
(* of the URL a sequence of characters; the value of the call is the byte  *)
(* sequence handed to parseJSONBytes.                                      *)
(***************************************************************************)
MaxBodyLen == 3

isHttpsScheme(input) ==
  input = <<"h", "t", "t", "p">> \/ input = <<"h", "t", "t", "p", "s">>

isHTTPNewLine(input) == input = 10 \/ input = 13

(* the bytes of )]}' *)
XSSIPrefix == <<41, 93, 125, 39>>

RECURSIVE prefix(_, _, _)
prefix(potentialPrefix, input, i) ==
  IF Len(potentialPrefix) <= i THEN TRUE
  ELSE IF Len(input) <= i THEN FALSE
  ELSE IF potentialPrefix[i + 1] # input[i + 1] THEN FALSE
  ELSE prefix(potentialPrefix, input, i + 1)

startsWith(input, potentialPrefix) == prefix(potentialPrefix, input, 0)

(* step 2.1 with the newline byte removed too *)
RECURSIVE removeThroughNewLine(_)
removeThroughNewLine(bodyBytes) ==
  IF Len(bodyBytes) = 0 THEN bodyBytes
  ELSE IF isHTTPNewLine(bodyBytes[1]) THEN Tail(bodyBytes)
  ELSE removeThroughNewLine(Tail(bodyBytes))

(* step 2.1: the 0th byte is removed while it is not an HTTP newline byte *)
RECURSIVE removeUntilNewLine(_)
removeUntilNewLine(bodyBytes) ==
  IF Len(bodyBytes) # 0 /\ ~isHTTPNewLine(bodyBytes[1])
  THEN removeUntilNewLine(Tail(bodyBytes))
  ELSE bodyBytes

(* url.protocol.slice(0, -1) *)
schemeOf(url) == SubSeq(url.protocol, 1, Len(url.protocol) - 1)

fetchSourceMap(url, bodyBytes) ==
  IF isHttpsScheme(schemeOf(url)) /\ startsWith(bodyBytes, XSSIPrefix)
  THEN removeUntilNewLine(bodyBytes)
  ELSE bodyBytes

URLInputs ==
  { [protocol |-> <<"h", "t", "t", "p", ":">>],
    [protocol |-> <<"h", "t", "t", "p", "s", ":">>],
    [protocol |-> <<"f", "i", "l", "e", ":">>] }

(* bodies: what follows nothing, the prefix, or the prefix cut short *)
BodyInputs ==
  { start \o rest : start \in {<<>>, XSSIPrefix, <<41, 93, 125>>},
                    rest \in SeqsUpTo({10, 13, 123, 125}, MaxBodyLen) }

CallFetchSourceMap ==
  /\ op = "none"
  /\ \E url \in URLInputs, bodyBytes \in BodyInputs :
       /\ op' = "fetchSourceMap"
       /\ args' = [url |-> url, bodyBytes |-> bodyBytes]
       /\ ret' = Returned(fetchSourceMap(url, bodyBytes))

Next ==
  \/ CallDecodeSourceMapMappings
  \/ CallDecodeBase64VLQ
  \/ CallOptionallyGetString
  \/ CallOptionallyGetListString
  \/ CallOptionallyGetListOfOptionallyStrings
  \/ CallOptionallyGetListArrayIndex
  \/ CallDecodeSourceMapSources
  \/ CallDecodeSourceMap
  \/ CallStrictlySplit
  \/ CallFetchSourceMap
  \/ Return

Spec == Init /\ [][Next]_vars

(***************************************************************************)
(* What the mappings format says a mappings string holds, stated without   *)
(* the decoder: its ';'-delimited groups, their ','-delimited segments and *)
(* the VLQ fields of a segment.                                            *)
(***************************************************************************)
HasContinuation(c) == (BASE64_ALPHABET(c) \div 32) % 2 = 1

RECURSIVE Pow32(_)
Pow32(n) == IF n = 0 THEN 1 ELSE 32 * Pow32(n - 1)

(* the magnitude that the characters from..to of segment encode *)
RECURSIVE ContinuationSum(_, _, _)
ContinuationSum(segment, from, to) ==
  IF to <= from THEN 0
  ELSE ContinuationSum(segment, from, to - 1)
         + (BASE64_ALPHABET(segment[to]) % 32) * 16 * Pow32(to - from - 1)

FieldMagnitude(segment, from, to) ==
  ((BASE64_ALPHABET(segment[from]) \div 2) % 16) + ContinuationSum(segment, from, to)

FieldIsNegative(segment, from) == BASE64_ALPHABET(segment[from]) % 2 = 1

(* a field that starts at from has its last character here *)
HasFieldEnd(segment, from) ==
  \E j \in from..Len(segment) : ~HasContinuation(segment[j])

FieldEnd(segment, from) ==
  CHOOSE j \in from..Len(segment) :
    /\ ~HasContinuation(segment[j])
    /\ \A i \in from..(j - 1) : HasContinuation(segment[i])

FieldValue(segment, from, to) ==
  LET magnitude == FieldMagnitude(segment, from, to) IN
  IF FieldIsNegative(segment, from)
  THEN (IF magnitude = 0 THEN MinInt32 ELSE -magnitude)
  ELSE magnitude

RECURSIVE Tokens(_, _)
Tokens(s, d) ==
  IF \E i \in 1..Len(s) : s[i] = d
  THEN LET i == CHOOSE i \in 1..Len(s) : s[i] = d /\ \A j \in 1..(i - 1) : s[j] # d
       IN <<SubSeq(s, 1, i - 1)>> \o Tokens(SubSeq(s, i + 1, Len(s)), d)
  ELSE <<s>>

RECURSIVE Fields(_)
Fields(segment) ==
  IF segment = <<>> THEN <<>>
  ELSE LET to == FieldEnd(segment, 1)
       IN <<FieldValue(segment, 1, to)>> \o Fields(SubSeq(segment, to + 1, Len(segment)))

(* the segments of the non-empty groups, in order, each with the index of  *)
(* its group and its fields                                                 *)
RECURSIVE SegmentsFrom(_, _)
SegmentsFrom(groups, g) ==
  IF g > Len(groups) THEN <<>>
  ELSE LET segments == Tokens(groups[g], ",")
       IN (IF groups[g] = <<>> THEN <<>>
           ELSE [i \in 1..Len(segments) |->
                   [group |-> g - 1, fields |-> Fields(segments[i])]])
          \o SegmentsFrom(groups, g + 1)

SegmentsOf(mappings) == SegmentsFrom(Tokens(mappings, ";"), 1)

IsReadable(segment) == segment.fields # <<>>

ReadableSegmentsOf(mappings) == SelectSeq(SegmentsOf(mappings), IsReadable)

(* only allowed characters, and every VLQ of every segment is terminated   *)
(* (the magnitudes of the enumerated segments stay far below 2^31)         *)
WellFormedMappings(mappings) ==
  /\ \A i \in 1..Len(mappings) : mappings[i] \in {",", ";"} \/ IsBase64Char(mappings[i])
  /\ \A i \in 1..Len(mappings) :
       (i = Len(mappings) \/ mappings[i + 1] \in {",", ";"})
         => (mappings[i] \in {",", ";"} \/ ~HasContinuation(mappings[i]))

(* the sum of the leading fields of R[1..k] that lie in the group of R[k] *)
RECURSIVE ColumnSum(_, _, _)
ColumnSum(R, k, j) ==
  IF j = 0 THEN 0
  ELSE ColumnSum(R, k, j - 1)
         + (IF R[j].group = R[k].group THEN R[j].fields[1] ELSE 0)

(* the sum of field n over the segments of R[1..k] that have four fields *)
RECURSIVE RunningSum(_, _, _)
RunningSum(R, k, n) ==
  IF k = 0 THEN 0
  ELSE RunningSum(R, k - 1, n)
         + (IF Len(R[k].fields) >= 4 THEN R[k].fields[n] ELSE 0)

ColumnsStayNonNegative(R) == \A k \in 1..Len(R) : ColumnSum(R, k, k) >= 0

Decoded ==
  /\ op = "decodeSourceMapMappings"
  /\ WellFormedMappings(args.mappings)

(* C1: the mappings string of the README, with sources                     *)
(* ["helloworld.coffee"] and no names, decodes without a hard error to a   *)
(* non-empty list whose first record has generatedLine 0 and               *)
(* generatedColumn 0.                                                      *)
C1_ReadmeExampleDecodes ==
  (/\ op = "decodeSourceMapMappings"
   /\ args.mappings = ReadmeMappings
   /\ args.sources = <<"helloworld.coffee">>
   /\ args.names = <<>>)
    => /\ ~ret.thrown
       /\ Len(ret.decodedMappings) > 0
       /\ ret.decodedMappings[1].generatedLine = 0
       /\ ret.decodedMappings[1].generatedColumn = 0

(* C2: for a mappings string that passes the character checks and has no   *)
(* truncated or overflowing VLQ, the returned list has as many records as  *)
(* there are ','-delimited segments in the non-empty groups, less the      *)
(* segments whose leading field is unreadable.  (Stated for the strings    *)
(* whose generated columns stay non-negative: step 10.3.4 drops a segment  *)
(* that would make the column negative.)                                   *)
C2_OneRecordPerReadableSegment ==
  (Decoded /\ ColumnsStayNonNegative(ReadableSegmentsOf(args.mappings))) =>
    LET S == SegmentsOf(args.mappings) IN
    /\ ~ret.thrown
    /\ Len(ret.decodedMappings)
         = Len(S) - Cardinality({i \in 1..Len(S) : ~IsReadable(S[i])})

(* C3: generatedColumn starts at 0 in each group and the first VLQ of each *)
(* segment is added to it: the record of a segment has as generatedColumn  *)
(* the sum of the leading fields of the readable segments of its group up  *)
(* to and including its own.                                               *)
C3_GeneratedColumnIsSumOfDeltas ==
  LET R == ReadableSegmentsOf(args.mappings) IN
  (Decoded /\ ColumnsStayNonNegative(R)) =>
    \A k \in 1..Len(R) :
      /\ k <= Len(ret.decodedMappings)
      /\ ret.decodedMappings[k].generatedColumn = ColumnSum(R, k, k)

(* C4: generatedLine grows by one for each ';'-delimited group, empty or   *)
(* not: the call ends with generatedLine at the number of groups, and the  *)
(* k-th record carries the index of the group of the k-th readable         *)
(* segment, so the list is ordered by generatedLine and, within a line, by *)
(* encounter.                                                              *)
C4_GeneratedLineIsGroupIndex ==
  LET R == ReadableSegmentsOf(args.mappings) IN
  (Decoded /\ ColumnsStayNonNegative(R)) =>
    /\ ret.generatedLine = Len(Tokens(args.mappings, ";"))
    /\ \A k \in 1..Len(R) :
         /\ k <= Len(ret.decodedMappings)
         /\ ret.decodedMappings[k].generatedLine = R[k].group

(* C5: sourceIndex, originalLine and originalColumn start at 0 once and    *)
(* are not reset between groups: the record of a four-field segment has as *)
(* original position the running sums of the deltas of all four-field      *)
(* segments so far, whatever their group.                                  *)
C5_OriginalPositionRunsAcrossGroups ==
  LET R == ReadableSegmentsOf(args.mappings)
      InRange(k) ==
        /\ RunningSum(R, k, 2) \in 0..(Len(args.sources) - 1)
        /\ RunningSum(R, k, 3) >= 0
        /\ RunningSum(R, k, 4) >= 0
  IN (Decoded /\ ColumnsStayNonNegative(R)) =>
       \A k \in 1..Len(R) :
         (Len(R[k].fields) >= 4 /\ InRange(k)) =>
           /\ k <= Len(ret.decodedMappings)
           /\ ret.decodedMappings[k].originalSource
                = Some(args.sources[RunningSum(R, k, 2) + 1])
           /\ ret.decodedMappings[k].originalLine = Some(RunningSum(R, k, 3))
           /\ ret.decodedMappings[k].originalColumn = Some(RunningSum(R, k, 4))

(* C8: decoding the base64 VLQ encoding of v from position 0 gives v, for  *)
(* every v of [-2^30, 2^30]; "A", "C", "G", "O" decode to 0, 1, 3, 7.       *)
C8_DecodeInvertsEncode ==
  op = "decodeBase64VLQ" =>
    /\ \A v \in RoundTripValues :
         (args.segment = EncodeVLQ(v) /\ args.position = 0)
           => (ret.kind = "value" /\ ret.value = v)
    /\ \A i \in 1..4 :
         (args.segment = <<(<<"A", "C", "G", "O">>)[i]>> /\ args.position = 0)
           => (ret.kind = "value" /\ ret.value = (<<0, 1, 3, 7>>)[i])

(* C9: the decoder throws for overflow exactly when, after a continuation  *)
(* chunk is added, the accumulated magnitude is 2^31 or more; a terminated *)
(* VLQ whose magnitude stays below 2^31 is never rejected as overflow.     *)
C9_OverflowOnlyFromTwoPow31 ==
  (op = "decodeBase64VLQ" /\ args.position < Len(args.segment)) =>
    LET from == args.position + 1 IN
    (ret.kind = "overflow") <=>
      \E j \in (from + 1)..Len(args.segment) :
        /\ \A i \in from..(j - 1) : HasContinuation(args.segment[i])
        /\ FieldMagnitude(args.segment, from, j) > 2147483647

(* C10: a call that returns a number returns -2147483648 when the decoded  *)
(* magnitude is 0 and the sign bit of the first character is set, and the  *)
(* magnitude times the sign otherwise.                                     *)
C10_NegativeZeroIsMinInt32 ==
  (op = "decodeBase64VLQ" /\ ret.kind = "value") =>
    LET from == args.position + 1
        magnitude == FieldMagnitude(args.segment, from, FieldEnd(args.segment, from))
    IN ret.value = IF FieldIsNegative(args.segment, from)
                   THEN (IF magnitude = 0 THEN -2147483647 - 1 ELSE -magnitude)
                   ELSE magnitude

(* "B": magnitude 0 with the sign bit set *)
C10_Witness ==
  /\ op = "decodeBase64VLQ"
  /\ args.segment = <<"B">>
  /\ args.position = 0
  /\ ret.kind = "value"
  /\ ret.value = -2147483647 - 1

(* the ','-delimited segments of all the groups of a mappings string *)
SegmentTokensOf(mappings) ==
  UNION { {Tokens(g, ",")[i] : i \in 1..Len(Tokens(g, ","))} :
          g \in {Tokens(mappings, ";")[k] : k \in 1..Len(Tokens(mappings, ";"))} }

(* the segment ends inside one of its first five fields *)
EndsInsideField(segment) ==
  /\ segment # <<>>
  /\ HasContinuation(segment[Len(segment)])
  /\ Cardinality({i \in 1..Len(segment) : ~HasContinuation(segment[i])}) < 5

LeadingDeltaNotNegative(segment) ==
  (segment # <<>> /\ HasFieldEnd(segment, 1)) => ~FieldIsNegative(segment, 1)

AllowedCharsOnly(mappings) ==
  \A i \in 1..Len(mappings) : mappings[i] \in {",", ";"} \/ IsBase64Char(mappings[i])

(* C11: when a segment ends while the continuation bit of its last         *)
(* character is set, decodeSourceMapMappings throws and returns nothing.   *)
(* (Stated for the strings whose leading deltas are not negative and for   *)
(* the five fields a segment is read for: a field the decoder is to read.) *)
C11_TruncatedFieldThrows ==
  (/\ op = "decodeSourceMapMappings"
   /\ AllowedCharsOnly(args.mappings)
   /\ \A segment \in SegmentTokensOf(args.mappings) : LeadingDeltaNotNegative(segment)
   /\ \E segment \in SegmentTokensOf(args.mappings) : EndsInsideField(segment))
    => (ret.thrown /\ ret.decodedMappings = <<>>)

(* C13: decodeSourceMapMappings throws, and returns no mappings, whenever  *)
(* the string has a non-ASCII code unit or a character other than ',',     *)
(* ';', 0-9, A-Z, a-z, '+', '/'; the two checks of the characters throw    *)
(* for no string made of these characters only.                            *)
C13_DisallowedCharactersThrow ==
  op = "decodeSourceMapMappings" =>
    /\ ~AllowedCharsOnly(args.mappings)
         => (ret.thrown /\ ret.thrownAt \in {"step 1", "step 2"}
             /\ ret.decodedMappings = <<>>)
    /\ AllowedCharsOnly(args.mappings) => ret.thrownAt \notin {"step 1", "step 2"}

(* "A=": the padding character *)
C13_Witness ==
  /\ op = "decodeSourceMapMappings"
  /\ args.mappings = <<"A", "=">>
  /\ ret.thrown
  /\ ret.thrownAt = "step 2"

Extractors ==
  { "optionallyGetString", "optionallyGetListString",
    "optionallyGetListOfOptionallyStrings", "optionallyGetListArrayIndex" }

(* the key is present and its value is not of the shape the extractor reads *)
WrongShape ==
  /\ op \in Extractors
  /\ "key" \in DOMAIN args.jsonMap
  /\ args.jsonMap.key.t # (IF op = "optionallyGetString" THEN "string" ELSE "list")

RequiredFieldIsWrong(jsonMap) ==
  \/ ~exists(jsonMap, "mappings") \/ jsonMap["mappings"].t # "string"
  \/ ~exists(jsonMap, "sources") \/ jsonMap["sources"].t # "list"

WithVersion3(jsonMap) ==
  [k \in DOMAIN jsonMap \cup {"version"} |->
     IF k = "version" THEN JNumber(3, TRUE) ELSE jsonMap[k]]

(* C12: decodeSourceMap throws at step 2 or 3, before any extractor,      *)
(* source resolver or mapping decoder runs, when mappings is missing or   *)
(* not a string or sources is missing or not a list; the version never    *)
(* makes it throw and never changes what it returns.                      *)
C12_RequiredFieldsThrowVersionDoesNot ==
  op = "decodeSourceMap" =>
    /\ RequiredFieldIsWrong(args.jsonMap) =>
         ret.thrown /\ ret.thrownAt \in {"step 2", "step 3"}
    /\ ret.thrownAt # "step 1"
    /\ ret = decodeSourceMap(WithVersion3(args.jsonMap), args.baseURL)

C12_Witness ==
  /\ op = "decodeSourceMap"
  /\ exists(args.jsonMap, "version")
  /\ args.jsonMap["version"] = JNumber(2, TRUE)
  /\ exists(args.jsonMap, "mappings")
  /\ args.jsonMap["mappings"].t = "number"
  /\ ret.thrownAt = "step 2"

(* C14: decodeSourceMap gives the decoded source of a null entry of       *)
(* sources a null URL and the decoded source of a string entry a URL.     *)
C14_NullSourceHasNoURL ==
  (op = "decodeSourceMap" /\ ~ret.thrown) =>
    LET items == args.jsonMap["sources"].items
    IN /\ Len(ret.value[1].sources) = Len(items)
       /\ \A i \in 1..Len(items) :
            (items[i].t = "null") <=> (ret.value[1].sources[i].url = Null)

(* the prefix of C15 *)
PrefixOfRoot(sourceRoot) ==
  IF sourceRoot = Null THEN <<>>
  ELSE IF \E i \in 1..Len(sourceRoot[1]) : sourceRoot[1][i] = "/"
  THEN LET last == CHOOSE i \in 1..Len(sourceRoot[1]) :
                     /\ sourceRoot[1][i] = "/"
                     /\ \A j \in (i + 1)..Len(sourceRoot[1]) : sourceRoot[1][j] # "/"
       IN SubSeq(sourceRoot[1], 1, last)
  ELSE sourceRoot[1] \o <<"/">>

(* C15: the string resolved against the base URL for a present entry s of *)
(* sources is the prefix followed by s: the prefix is empty when          *)
(* sourceRoot is null, sourceRoot up to its last '/' when it has one, and *)
(* sourceRoot followed by '/' otherwise.                                   *)
C15_ResolvedStringIsPrefixThenSource ==
  op = "decodeSourceMapSources" =>
    \A i \in 1..Len(args.sources) :
      (args.sources[i] # Null /\ i <= Len(ret.value)) =>
        ret.value[i].url =
          URLParse(PrefixOfRoot(args.sourceRoot) \o args.sources[i][1], args.baseURL)

(* C16: the decoded source at index i is ignored exactly when i is an     *)
(* element of ignoredSources.                                              *)
C16_IgnoredIffIndexIsListed ==
  op = "decodeSourceMapSources" =>
    \A i \in 1..Len(ret.value) :
      ret.value[i].ignored <=>
        \E j \in 1..Len(args.ignoredSources) : args.ignoredSources[j] = Some(i - 1)

(* C17: the content of the decoded source at index i is sourcesContent[i] *)
(* when i is below the size of sourcesContent, and stays null otherwise.  *)
C17_ContentOnlyBelowSize ==
  op = "decodeSourceMapSources" =>
    \A i \in 1..Len(ret.value) :
      ret.value[i].content =
        IF i <= Len(args.sourcesContent) THEN args.sourcesContent[i] ELSE Null

(* the URL that decodeSourceMapSources gives a source decoded on its own *)
URLOfAlone(baseURL, sourceRoot, source) ==
  decodeSourceMapSources(baseURL, sourceRoot, <<source>>, <<>>, <<>>)[1].url

(* C18: decodeSourceMapSources returns one decoded source for each entry  *)
(* of sources, in the order of sources: the i-th has the URL of           *)
(* sources[i], null for a null entry, whatever sourcesContent and         *)
(* ignoredSources are.                                                     *)
C18_OneDecodedSourcePerSource ==
  op = "decodeSourceMapSources" =>
    /\ Len(ret.value) = Len(args.sources)
    /\ \A i \in 1..Len(ret.value) :
         /\ ret.value[i].url = URLOfAlone(args.baseURL, args.sourceRoot, args.sources[i])
         /\ args.sources[i] = Null => ret.value[i].url = Null

C18_Witness ==
  /\ op = "decodeSourceMapSources"
  /\ args.sources = <<Some(<<"a", ".", "j", "s">>), Null>>
  /\ args.sourcesContent = <<>>
  /\ args.ignoredSources = <<Null, Some(1)>>
  /\ Len(ret.value) = 2
  /\ ret.value[1].url # Null
  /\ ret.value[2].url = Null

(***************************************************************************)
(* The list extractors, item by item                                       *)
(***************************************************************************)
IsStringItem(jsonItem) == jsonItem.t = "string"

IsArrayIndexItem(jsonItem) ==
  jsonItem.t = "number" /\ jsonItem.isInteger /\ jsonItem.floor >= 0

(* what the claim says the extractor named by op keeps of an item *)
ExpectedItem(jsonItem) ==
  IF op = "optionallyGetListString"
  THEN (IF IsStringItem(jsonItem) THEN Some(jsonItem.chars) ELSE Some(<<>>))
  ELSE IF op = "optionallyGetListOfOptionallyStrings"
  THEN (IF IsStringItem(jsonItem) THEN Some(jsonItem.chars) ELSE Null)
  ELSE (IF IsArrayIndexItem(jsonItem) THEN Some(jsonItem.floor) ELSE Null)

ListExtractors ==
  {"optionallyGetListString", "optionallyGetListOfOptionallyStrings",
   "optionallyGetListArrayIndex"}

GivenList ==
  /\ op \in ListExtractors
  /\ exists(args.jsonMap, args.key)
  /\ args.jsonMap[args.key].t = "list"

RECURSIVE NameSum(_, _)
NameSum(R, k) ==
  IF k = 0 THEN 0
  ELSE NameSum(R, k - 1) + (IF Len(R[k].fields) >= 5 THEN R[k].fields[5] ELSE 0)

(* the original position that the deltas up to R[k] give is one of sources *)
OriginalInRange(R, k, sources) ==
  /\ RunningSum(R, k, 2) \in 0..(Len(sources) - 1)
  /\ RunningSum(R, k, 3) >= 0
  /\ RunningSum(R, k, 4) >= 0

(* the k-th returned record has the generated position of R[k] *)
HasGeneratedPosition(R, k) ==
  /\ k <= Len(ret.decodedMappings)
  /\ ret.decodedMappings[k].generatedLine = R[k].group
  /\ ret.decodedMappings[k].generatedColumn = ColumnSum(R, k, k)

HasNoOriginal(k) ==
  /\ ret.decodedMappings[k].originalSource = Null
  /\ ret.decodedMappings[k].originalLine = Null
  /\ ret.decodedMappings[k].originalColumn = Null

(* C22: the record of a segment with a name-index delta has the name      *)
(* names[nameIndex] when 0 <= nameIndex < names.size, and no name when    *)
(* nameIndex is negative or >= names.size (names.size included).          *)
C22_NameOnlyWithinNames ==
  LET R == ReadableSegmentsOf(args.mappings) IN
  (Decoded /\ ColumnsStayNonNegative(R)) =>
    \A k \in 1..Len(R) :
      Len(R[k].fields) >= 5 =>
        /\ k <= Len(ret.decodedMappings)
        /\ ret.decodedMappings[k].name =
             IF NameSum(R, k) \in 0..(Len(args.names) - 1)
             THEN Some(args.names[NameSum(R, k) + 1])
             ELSE Null

(* C23: a segment whose deltas make sourceIndex, originalLine or          *)
(* originalColumn negative, or sourceIndex >= sources.size, throws        *)
(* nothing: its record stays in the list with its generated position and  *)
(* without an original position.                                          *)
C23_OutOfRangeKeepsGeneratedOnly ==
  LET R == ReadableSegmentsOf(args.mappings) IN
  (Decoded /\ ColumnsStayNonNegative(R)) =>
    /\ ~ret.thrown
    /\ \A k \in 1..Len(R) :
         (Len(R[k].fields) >= 4 /\ ~OriginalInRange(R, k, args.sources)) =>
           HasGeneratedPosition(R, k) /\ HasNoOriginal(k)

(* C25: a segment with one, two or three fields throws nothing and gives  *)
(* a record with its generated position only; it leaves sourceIndex,      *)
(* originalLine, originalColumn and nameIndex as they were, so a string   *)
(* of such segments ends with all four at 0.                              *)
C25_ShortSegmentIsGeneratedOnly ==
  LET R == ReadableSegmentsOf(args.mappings) IN
  (Decoded /\ ColumnsStayNonNegative(R)) =>
    /\ ~ret.thrown
    /\ \A k \in 1..Len(R) :
         Len(R[k].fields) <= 3 =>
           /\ HasGeneratedPosition(R, k)
           /\ HasNoOriginal(k)
           /\ ret.decodedMappings[k].name = Null
    /\ (\A k \in 1..Len(R) : Len(R[k].fields) <= 3) =>
         /\ ret.sourceIndex = 0
         /\ ret.originalLine = 0
         /\ ret.originalColumn = 0
         /\ ret.nameIndex = 0

(* C27: the accumulators are not rolled back after a soft error: the call *)
(* ends with each at the sum of all its deltas, and a segment that comes  *)
(* after one that went out of range has the original position that the    *)
(* sums over all segments so far give.                                    *)
C27_AccumulatorsKeepSoftErrors ==
  LET R == ReadableSegmentsOf(args.mappings) IN
  (/\ Decoded
   /\ ColumnsStayNonNegative(R)
   /\ \E j \in 1..Len(R) :
        \/ Len(R[j].fields) >= 4 /\ ~OriginalInRange(R, j, args.sources)
        \/ Len(R[j].fields) >= 5 /\ NameSum(R, j) \notin 0..(Len(args.names) - 1)) =>
    /\ ret.sourceIndex = RunningSum(R, Len(R), 2)
    /\ ret.originalLine = RunningSum(R, Len(R), 3)
    /\ ret.originalColumn = RunningSum(R, Len(R), 4)
    /\ ret.nameIndex = NameSum(R, Len(R))
    /\ \A k \in 1..Len(R) :
         (Len(R[k].fields) >= 4 /\ OriginalInRange(R, k, args.sources)) =>
           /\ k <= Len(ret.decodedMappings)
           /\ ret.decodedMappings[k].originalSource
                = Some(args.sources[RunningSum(R, k, 2) + 1])
           /\ ret.decodedMappings[k].originalLine = Some(RunningSum(R, k, 3))
           /\ ret.decodedMappings[k].originalColumn = Some(RunningSum(R, k, 4))

(***************************************************************************)
(* strictlySplit                                                           *)
(***************************************************************************)
Occurrences(input, d) == Cardinality({i \in 1..Len(input) : input[i] = d})

(* C26: strictlySplit(input, d) returns as many tokens as input has       *)
(* occurrences of d, plus one; no token contains d, and the tokens joined *)
(* with d give input back (the empty string gives the one token "").      *)
C26_SplitGivesOccurrencesPlusOneTokens ==
  op = "strictlySplit" =>
    /\ Len(ret.value) = Occurrences(args.input, args.delimiter) + 1
    /\ \A i \in 1..Len(ret.value) : Occurrences(ret.value[i], args.delimiter) = 0
    /\ JoinWith(ret.value, args.delimiter) = args.input

(***************************************************************************)
(* fetchSourceMap                                                          *)
(***************************************************************************)
IsNewLineByte(b) == b \in {10, 13}

HasNewLine(body) == \E i \in 1..Len(body) : IsNewLineByte(body[i])

FirstNewLine(body) ==
  CHOOSE i \in 1..Len(body) :
    IsNewLineByte(body[i]) /\ \A j \in 1..(i - 1) : ~IsNewLineByte(body[j])

(* an http or https URL and a body that starts with the four bytes )]}' *)
Escaped ==
  /\ op = "fetchSourceMap"
  /\ args.url.protocol \in {<<"h", "t", "t", "p", ":">>, <<"h", "t", "t", "p", "s", ":">>}
  /\ Len(args.bodyBytes) >= 4
  /\ SubSeq(args.bodyBytes, 1, 4) = <<41, 93, 125, 39>>

(* C24: for an http or https URL and a body that starts with )]}' the     *)
(* bytes up to and including the first newline byte are removed before    *)
(* the JSON parser; for any other scheme or body the bytes reach the      *)
(* parser unchanged.                                                      *)
C24_RemovesThroughFirstNewLine ==
  op = "fetchSourceMap" =>
    IF Escaped
    THEN HasNewLine(args.bodyBytes) =>
           ret.value = SubSeq(args.bodyBytes, FirstNewLine(args.bodyBytes) + 1,
                              Len(args.bodyBytes))
    ELSE ret.value = args.bodyBytes

(* C24 as the code has it: the bytes before the first newline byte are    *)
(* removed and the newline byte itself stays, the first byte handed to    *)
(* the JSON parser; a body without a newline byte is emptied.             *)
C24_RemovesUpToFirstNewLine ==
  op = "fetchSourceMap" =>
    IF Escaped
    THEN ret.value =
           IF HasNewLine(args.bodyBytes)
           THEN SubSeq(args.bodyBytes, FirstNewLine(args.bodyBytes),
                       Len(args.bodyBytes))
           ELSE <<>>
    ELSE ret.value = args.bodyBytes

C24_Witness ==
  /\ Escaped
  /\ args.bodyBytes = <<41, 93, 125, 39, 125, 10, 123>>
  /\ ret.value = <<10, 123>>

====
